---- MODULE Spec2Model ----
(***************************************************************************)
(* Model of the airdrop tracker: the provider-facing fetchers and the      *)
(* reconciliation pipeline of logic.py, and the job wrapper of app.py.     *)
(***************************************************************************)
EXTENDS Integers, Sequences, FiniteSets, TLC

(* ------------------------------ bounds --------------------------------- *)

\* page_size of the paginated fetchers (10000 in the program)
PageSize == 2
\* most records the provider holds behind one list endpoint
MaxRecords == 5
\* most failed responses the provider gives in one behaviour
MaxFaults == 3
\* largest max_holders / max_transactions passed to a paginated fetcher
MaxCount == 3

(* -------------------------- program constants -------------------------- *)

MAX_RETRIES == 3

Jobs == {"j1", "j2"}

(* ------------------------------ strings -------------------------------- *)

\* An address is <<id, mixed>>: the hex digits id, spelled in lowercase
\* (mixed = FALSE) or with uppercase letters (mixed = TRUE).
Lower(a) == <<a[1], FALSE>>

Addr(n) == <<n, FALSE>>
Mixed(n) == <<n, TRUE>>

TokenA == Addr(901)
TokenB == Addr(902)
Tokens == {TokenA, TokenB}

(* --------------------------- python helpers ---------------------------- *)

\* An optional integer argument: <<>> is None, <<m>> is the integer m.
None == <<>>
Some(m) == <<m>>
\* Python truthiness of an optional integer: None and 0 are falsy.
Truthy(opt) == opt # None /\ opt[1] # 0

Min(a, b) == IF a <= b THEN a ELSE b

\* all[:m] for m >= 0
Prefix(s, m) == SubSeq(s, 1, Min(m, Len(s)))


\* A Python dict is the sequence of its <<key, value>> items in insertion order.
DictHas(d, k) == \E i \in 1..Len(d) : d[i][1] = k
DictGet(d, k, default) ==
    IF DictHas(d, k) THEN d[CHOOSE i \in 1..Len(d) : d[i][1] = k][2] ELSE default
DictPut(d, k, v) ==
    IF DictHas(d, k)
    THEN [i \in 1..Len(d) |-> IF d[i][1] = k THEN <<k, v>> ELSE d[i]]
    ELSE Append(d, <<k, v>>)
DictKeys(d) == [i \in 1..Len(d) |-> d[i][1]]

\* Text is a sequence of characters; lower() and the "in" substring test.
LowerCh(c) ==
    CASE c = "A" -> "a" [] c = "B" -> "b" [] c = "C" -> "c" [] c = "D" -> "d" [] OTHER -> c
LowerStr(s) == [i \in 1..Len(s) |-> LowerCh(s[i])]
IsSubstr(p, s) == \E k \in 0..(Len(s) - Len(p)) : SubSeq(s, k + 1, k + Len(p)) = p

(* ------------------------------ provider ------------------------------- *)

\* The records of page p (1-based) of a list the provider holds.
Page(data, p) == SubSeq(data, (p - 1) * PageSize + 1, Min(p * PageSize, Len(data)))

HolderRec(i) == [TokenHolderAddress |-> Addr(i), TokenHolderQuantity |-> 1000 + i]
TransferRec(i) == [from |-> Addr(i), functionName |-> <<"a", "b">>, value |-> 10 * i]

HolderData(n) == [i \in 1..n |-> HolderRec(i)]
TransferData(n) == [i \in 1..n |-> TransferRec(i)]

\* Events of a run as seen from outside: requests sent and sleeps taken.
\* Sleep durations are in tenths of a second.
Req(api, page, res) == [ev |-> "request", api |-> api, page |-> page, res |-> res, dur |-> 0]
Sleep(d) == [ev |-> "sleep", api |-> "-", page |-> 0, res |-> "-", dur |-> d]

Failures == {"exception", "http_error", "rate_limit", "api_error", "malformed"}

VARIABLES
    pc,       \* position of each job
    req,      \* arguments of each job's top-level call
    fetch,    \* locals of the fetcher a job is in
    ret,      \* value the last fetcher call returned
    trace,    \* requests sent and sleeps taken in a job's current fetcher call
    sent,     \* requests each job has sent, per endpoint
    faults,   \* failed responses given so far
    budget,   \* failed responses the provider may give
    net,      \* the provider's data
    loc,      \* locals of each job's fetch_airdrop_data call
    files,    \* the output file of each job: <<>> until written
    old,      \* old_token, old_decimals, old_contracts of each job's process()
    TOKEN_CONTRACT,                   \* module global of logic.py
    DECIMALS,                         \* module global of logic.py
    DEFAULT_CONTRACTS_AND_FUNCTIONS,  \* module global of logic.py
    stdout,   \* sys.stdout: "terminal", or the job whose log file object it is
    log_files,  \* the log file of each job
    results   \* the result file of each job: <<>> until written

\* The module globals of logic.py
globals == <<TOKEN_CONTRACT, DECIMALS, DEFAULT_CONTRACTS_AND_FUNCTIONS>>

\* What app.py shares between the jobs and the handlers
streams == <<stdout, log_files, results>>

vars == <<pc, req, fetch, ret, trace, sent, faults, budget, net, loc, files, old, globals,
          streams>>

\* What a fetcher leaves alone.
outside == <<req, budget, net, loc, files, old, globals, stdout, results>>

\* What the steps of fetch_airdrop_data between two fetcher calls leave alone.
provider == <<sent, faults, budget, net>>

Apis == {"receipt", "tokenholdercount", "tokenholderlist", "tokentx"}
NoneSent == [a \in Apis |-> 0]
Count(j, api) == [sent EXCEPT ![j][api] = @ + 1]
TotalSent(j) == sent[j]["receipt"] + sent[j]["tokenholdercount"]
                + sent[j]["tokenholderlist"] + sent[j]["tokentx"]

NoFetch == [attempt |-> 0, page |-> 1, acc |-> <<>>, max |-> None, addr |-> TokenA, hash |-> "-"]
NoReq == [entry |-> "none", token |-> TokenA, max |-> None,
          txhashes |-> <<>>, test_mode |-> FALSE, decimals |-> 0, contracts |-> <<>>]
NoLoc == [idx |-> 0, api_calls |-> 0, received |-> <<>>, addresses |-> <<>>,
          balance_lookup |-> <<>>, contracts |-> <<>>, ci |-> 0, activity |-> <<>>,
          scale |-> None, not_found |-> 0, pauses |-> 0, exc |-> "-"]
NoOld == [token |-> None, decimals |-> None, contracts |-> None, stdout |-> None]

(* ------------------------- print and the log files --------------------- *)

\* Writes a file object buffers before it flushes them to the file
BufferSize == 2

\* A line of output: the run that wrote it and the texts the statement at
\* that source line puts into it (the request's texts, or the words of
\* log.write); the fixed words of the print statements are left out.
Line(j, at, tokens) == [by |-> j, tokens |-> tokens]

\* A log file: not created, open or closed; the lines written but still in
\* the file object's buffer, and the lines in the file.
NoLog == [state |-> "none", pending |-> {}, disk |-> {}, writes |-> 0]

\* One write to an open file object; a full buffer is flushed.
Write(log, lines) ==
    IF log.writes + 1 >= BufferSize
    THEN [log EXCEPT !.disk = log.disk \cup log.pending \cup lines,
                     !.pending = {}, !.writes = 0]
    ELSE [log EXCEPT !.pending = log.pending \cup lines, !.writes = log.writes + 1]

\* print(...) by the run of job j: the lines go to whatever sys.stdout is.
WriteStdout(j, lines) ==
    log_files' = IF stdout = "terminal" \/ lines = {} THEN log_files
            ELSE [log_files EXCEPT ![stdout] = Write(log_files[stdout], lines)]

\* Where a fetcher returns to: the top-level caller, or its call site.
AfterPc(fn) ==
    CASE fn = "fetch_transaction_receipt" -> "fad_receipt"
      [] fn = "get_token_holder_count" -> "fad_count"
      [] fn = "get_all_token_holders" -> "fad_holders"
      [] fn = "get_all_token_transfers" -> "aca_transfers"

RetPc(j, fn) == IF req[j].entry = fn THEN "done" ELSE AfterPc(fn)

FaultOk(res) == res = "ok" \/ res = "no_tx" \/ faults < budget
FaultCount(res) == IF res = "ok" \/ res = "no_tx" THEN faults ELSE faults + 1

(* ----------------------- get_all_token_holders ------------------------- *)

\* "break" on a failed request: the records fetched so far are kept.
OnFailure_Empty(all) == [acc |-> <<>>, more |-> FALSE]
OnFailure(all) == [acc |-> all, more |-> FALSE]

PageResult_NoShortStop(all, items, max) ==
    IF Len(items) = 0 THEN [acc |-> all, more |-> FALSE]
    ELSE LET ext == all \o items IN
         IF Truthy(max) /\ Len(ext) >= max[1]
         THEN [acc |-> Prefix(ext, max[1]), more |-> FALSE]
         ELSE [acc |-> ext, more |-> TRUE]

\* The processing of one fetched page: [acc, more].
PageResult(all, items, max) ==
    IF Len(items) = 0 THEN [acc |-> all, more |-> FALSE]
    ELSE LET ext == all \o items IN
         IF Truthy(max) /\ Len(ext) >= max[1]
         THEN [acc |-> Prefix(ext, max[1]), more |-> FALSE]
         ELSE IF Len(items) < PageSize
              THEN [acc |-> ext, more |-> FALSE]
              ELSE [acc |-> ext, more |-> TRUE]

HolderPage(j) ==
    /\ pc[j] = "holders_req"
    /\ \E res \in Failures \cup {"ok"} :
         /\ FaultOk(res)
         /\ LET f == fetch[j]
                asked == Append(trace[j], Req("tokenholderlist", f.page, res))
                r == IF res = "ok"
                     THEN PageResult(f.acc, Page(net.holders[Lower(f.addr)], f.page), f.max)
                     ELSE OnFailure(f.acc)
            IN /\ fetch' = [fetch EXCEPT ![j] = [f EXCEPT !.acc = r.acc,
                                  !.page = IF r.more THEN f.page + 1 ELSE f.page]]
               /\ trace' = [trace EXCEPT ![j] = IF r.more THEN Append(asked, Sleep(5)) ELSE asked]
               /\ pc' = [pc EXCEPT ![j] = IF r.more THEN pc[j] ELSE RetPc(j, "get_all_token_holders")]
               /\ ret' = [ret EXCEPT ![j] = IF r.more THEN ret[j] ELSE r.acc]
               /\ faults' = FaultCount(res)
               /\ sent' = Count(j, "tokenholderlist")
               /\ WriteStdout(j, {Line(j, 170, <<>>)})
    /\ UNCHANGED outside

(* ---------------------- get_all_token_transfers ------------------------ *)

\* The transfer records the provider holds for an address (a contract).
TransfersOf(address) ==
    IF Lower(address) \in DOMAIN net.transfers THEN net.transfers[Lower(address)] ELSE <<>>

TransferPage(j) ==
    /\ pc[j] = "transfers_req"
    /\ \E res \in Failures \cup {"ok", "no_tx"} :
         /\ FaultOk(res)
         /\ res = "no_tx" => Len(Page(TransfersOf(fetch[j].addr), fetch[j].page)) = 0
         /\ LET f == fetch[j]
                asked == Append(trace[j], Req("tokentx", f.page, res))
                r == IF res = "ok"
                     THEN PageResult(f.acc, Page(TransfersOf(f.addr), f.page), f.max)
                     ELSE OnFailure(f.acc)
            IN /\ fetch' = [fetch EXCEPT ![j] = [f EXCEPT !.acc = r.acc,
                                  !.page = IF r.more THEN f.page + 1 ELSE f.page]]
               /\ trace' = [trace EXCEPT ![j] = IF r.more THEN Append(asked, Sleep(5)) ELSE asked]
               /\ pc' = [pc EXCEPT ![j] = IF r.more THEN pc[j] ELSE RetPc(j, "get_all_token_transfers")]
               /\ WriteStdout(j, {Line(j, 276, <<>>)})
               /\ ret' = [ret EXCEPT ![j] = IF r.more THEN ret[j] ELSE r.acc]
               /\ faults' = FaultCount(res)
               /\ sent' = Count(j, "tokentx")
    /\ UNCHANGED outside

(* ---------------------- fetch_transaction_receipt ---------------------- *)

TRANSFER_TOPIC == <<"ddf252ad", FALSE>>
APPROVAL_TOPIC == <<"8c5be1e5", FALSE>>

\* A 32-byte topic holding an indexed address in its low 20 bytes.
AddrTopic(a) == [hi |-> 0, lo |-> a]

\* A log entry; data is <<n>> (the hex digits of n) or <<>> (not hex).
Log(emitter, topic0, to, data) ==
    [address |-> emitter, topics |-> <<topic0, AddrTopic(Addr(0)), AddrTopic(to)>>, data |-> data]

\* A receipt as returned by fetch_transaction_receipt: a JSON object with
\* its logs, a text (the provider's error string), or {} (nothing fetched).
Receipt(logs) == [kind |-> "dict", logs |-> logs]
TextResult == [kind |-> "text", logs |-> <<>>]
EmptyReceipt == [kind |-> "empty", logs |-> <<>>]

\* Most recipients of one transaction in the provider's data.
BigDrop == 101

ReceiptOf(h) ==
    CASE h = "h0" -> Receipt(<<>>)
      [] h = "h1" -> Receipt(<<Log(TokenA, TRANSFER_TOPIC, Addr(1), <<1500>>),
                               Log(TokenA, TRANSFER_TOPIC, Addr(2), <<1000>>),
                               Log(TokenB, TRANSFER_TOPIC, Addr(3), <<700>>),
                               Log(TokenA, APPROVAL_TOPIC, Addr(3), <<5>>)>>)
      [] h = "h2" -> Receipt(<<Log(Mixed(901), Mixed("ddf252ad"), Mixed(1), <<500>>),
                               Log(TokenA, TRANSFER_TOPIC, Addr(3), <<>>),
                               Log(TokenB, TRANSFER_TOPIC, Addr(2), <<40>>)>>)
      [] h = "hBig" -> Receipt([i \in 1..BigDrop |->
                               Log(TokenA, TRANSFER_TOPIC, Addr(100 + i), <<i>>)])
      [] h = "hText" -> TextResult   \* the provider answers this one with a message
      [] OTHER -> EmptyReceipt    \* a hash the chain does not know: result null

\* The last iteration of "for attempt in range(MAX_RETRIES)".
LastAttempt_OneMore(attempt) == attempt = MAX_RETRIES
LastAttempt(attempt) == attempt = MAX_RETRIES - 1

ReceiptOutcomes == {"exception", "http_error", "rate_limit", "empty", "error_text", "ok"}

ReceiptAttempt(j) ==
    /\ pc[j] = "receipt_req"
    /\ \E res \in ReceiptOutcomes :
         /\ IF ReceiptOf(fetch[j].hash) = EmptyReceipt
            THEN res # "ok" /\ (res = "empty" \/ faults < budget)
            ELSE FaultOk(res)
         /\ LET f == fetch[j]
                asked == Append(trace[j], Req("receipt", 0, res))
                slept == CASE res = "exception" -> Append(asked, Sleep(20))
                           [] res = "rate_limit" -> Append(asked, Sleep(50))
                           [] OTHER -> asked
                got == res \in {"ok", "error_text"}
                last == LastAttempt(f.attempt)
                done == got \/ last
                val == CASE res = "ok" -> ReceiptOf(f.hash)
                         [] res = "error_text" -> TextResult
                         [] OTHER -> EmptyReceipt
            IN /\ fetch' = [fetch EXCEPT ![j].attempt = IF done THEN f.attempt ELSE f.attempt + 1]
               /\ trace' = [trace EXCEPT ![j] = slept]
               /\ pc' = [pc EXCEPT ![j] = IF done THEN RetPc(j, "fetch_transaction_receipt") ELSE pc[j]]
               /\ ret' = [ret EXCEPT ![j] = IF done THEN val ELSE ret[j]]
               /\ faults' = IF ReceiptOf(f.hash) = EmptyReceipt /\ res = "empty"
                            THEN faults ELSE FaultCount(res)
               /\ sent' = Count(j, "receipt")
               /\ WriteStdout(j, IF res \in {"exception", "rate_limit"}
                                 THEN {Line(j, 454, <<>>)} ELSE {})
    /\ UNCHANGED outside

(* ----------------------- get_token_holder_count ------------------------ *)

CountOutcomes == {"exception", "http_error", "rate_limit", "api_error", "bad_format", "ok"}

HolderCountAttempt(j) ==
    /\ pc[j] = "count_req"
    /\ \E res \in CountOutcomes :
         /\ FaultOk(res)
         /\ LET f == fetch[j]
                asked == Append(trace[j], Req("tokenholdercount", 0, res))
                last == LastAttempt(f.attempt)
                slept == CASE res = "exception" /\ ~last -> Append(asked, Sleep(20))
                           [] res = "rate_limit" -> Append(asked, Sleep(50))
                           [] OTHER -> asked
                done == res \in {"ok", "api_error", "bad_format"} \/ last
                val == IF res = "ok" THEN Some(Len(net.holders[Lower(f.addr)])) ELSE None
            IN /\ fetch' = [fetch EXCEPT ![j].attempt = IF done THEN f.attempt ELSE f.attempt + 1]
               /\ trace' = [trace EXCEPT ![j] = slept]
               /\ pc' = [pc EXCEPT ![j] = IF done THEN RetPc(j, "get_token_holder_count") ELSE pc[j]]
               /\ ret' = [ret EXCEPT ![j] = IF done THEN val ELSE ret[j]]
               /\ faults' = FaultCount(res)
               /\ sent' = Count(j, "tokenholdercount")
               /\ WriteStdout(j, IF res \in {"exception", "rate_limit", "api_error", "bad_format"}
                                 THEN {Line(j, 125, <<>>)} ELSE {})
    /\ UNCHANGED outside

(* ------------------------- decimal arithmetic -------------------------- *)

\* A token amount divided by the scale 10 ** DECIMALS is the exact decimal
\* wei / 10^d; the model keeps the pair (wei, d).

RECURSIVE Pow10(_)
Pow10(n) == IF n = 0 THEN 1 ELSE 10 * Pow10(n - 1)

RECURSIVE Pow2(_)
Pow2(n) == IF n = 0 THEN 1 ELSE 2 * Pow2(n - 1)

RECURSIVE Gcd(_, _)
Gcd(a, b) == IF b = 0 THEN a ELSE Gcd(b, a % b)

RECURSIVE Pow2Mod(_, _)
Pow2Mod(e, m) == IF e = 0 THEN 1 % m ELSE (2 * Pow2Mod(e - 1, m)) % m

Abs(x) == IF x < 0 THEN -x ELSE x

\* floor(log2(p / q)) for p, q > 0
Log2Floor(p, q) ==
    IF p >= q
    THEN CHOOSE l \in 0..30 : q * Pow2(l) <= p /\ (l = 30 \/ p < q * Pow2(l + 1))
    ELSE -(CHOOSE n \in 1..30 : p * Pow2(n) >= q /\ p * Pow2(n - 1) < q)

\* float(Decimal): the sign of (nearest double to p/q) - p/q, for p, q > 0.
\* The double has a 53-bit mantissa m = round(p * 2^e / q), 2^52 <= m < 2^53,
\* so the sign is decided by the remainder of p * 2^e modulo q.
FloatError(p, q) ==
    LET g == Gcd(p, q)
        pp == p \div g
        qq == q \div g
        e == 52 - Log2Floor(pp, qq)
        r == ((pp % qq) * Pow2Mod(e, qq)) % qq
    IN IF r = 0 THEN 0 ELSE IF 2 * r < qq THEN -1 ELSE 1

\* Round-half-even of n / q to an integer, n >= 0, q > 0.
RoundHalfEven(n, q) ==
    LET h == n \div q
        r == n % q
    IN IF 2 * r < q THEN h
       ELSE IF 2 * r > q THEN h + 1
       ELSE IF h % 2 = 0 THEN h ELSE h + 1

\* round(float(val), 2) for val = a / 10^d, a >= 0, in hundredths: the
\* hundredth nearest to the double nearest to val. At an exact .xx5 the
\* double lies above or below val, or is val itself (then half-even).
RoundFloat2_Exact(a, d) ==
    IF d <= 2 THEN a * Pow10(2 - d)
    ELSE IF d > 11 THEN 0
    ELSE RoundHalfEven(a, Pow10(d - 2))

RoundFloat2(a, d) ==
    IF d <= 2 THEN a * Pow10(2 - d)
    ELSE IF d > 11 THEN 0     \* a < 2^31 in the model, so val < 0.005
    ELSE LET q == Pow10(d - 2)
             h == a \div q
             r == a % q
         IN IF 2 * r < q THEN h
            ELSE IF 2 * r > q THEN h + 1
            ELSE LET err == FloatError(2 * h + 1, 200)
                 IN IF err < 0 THEN h
                    ELSE IF err > 0 THEN h + 1
                    ELSE IF h % 2 = 0 THEN h ELSE h + 1

\* A displayed number: the text sign, integer digits, and the decimals left
\* after rstrip('0').rstrip('.') as a sequence of digits.
Text(neg, h) ==
    LET d1 == (h % 100) \div 10
        d2 == h % 10
    IN [neg |-> neg, int |-> h \div 100,
        frac |-> IF d2 # 0 THEN <<d1, d2>> ELSE IF d1 # 0 THEN <<d1>> ELSE <<>>]

\* format_decimal(val) for val = wei / 10^d
format_decimal(wei, d) == Text(wei < 0, RoundFloat2(Abs(wei), d))

\* Decimal(text) of a displayed number, in hundredths.
DecimalOf(t) ==
    LET f == IF Len(t.frac) = 0 THEN 0
             ELSE IF Len(t.frac) = 1 THEN 10 * t.frac[1]
             ELSE 10 * t.frac[1] + t.frac[2]
        v == 100 * t.int + f
    IN IF t.neg THEN -v ELSE v

PercentText_Unguarded(cur, rcv) ==
    LET h == IF rcv # 0 THEN RoundHalfEven(cur * 10000, rcv) ELSE 10000
    IN [neg |-> FALSE, int |-> h \div 100, frac |-> <<(h % 100) \div 10, h % 10>>]

\* f"{pct.quantize(Decimal('0.01'))}%": always two decimals.
PercentText(cur, rcv) ==
    LET h == IF rcv > 0 THEN RoundHalfEven(cur * 10000, rcv) ELSE 0
    IN [neg |-> FALSE, int |-> h \div 100, frac |-> <<(h % 100) \div 10, h % 10>>]

(* -------------------- parse_transfers_from_receipt -------------------- *)

\* int(data, 16), and 0 when that raises
HexInt(data) == IF data = <<>> THEN 0 ELSE data[1]

KeepLog_CaseSensitive(lg, token_contract) ==
    /\ lg.address = token_contract
    /\ Len(lg.topics) > 0
    /\ lg.topics[1] = TRANSFER_TOPIC

KeepLog(lg, token_contract) ==
    /\ Lower(lg.address) = Lower(token_contract)
    /\ Len(lg.topics) > 0
    /\ Lower(lg.topics[1]) = TRANSFER_TOPIC

parse_transfers_AsSpelled(receipt, token_contract) ==
    LET kept == SelectSeq(receipt.logs, LAMBDA lg : KeepLog(lg, token_contract))
    IN [i \in 1..Len(kept) |-> <<kept[i].topics[3].lo, HexInt(kept[i].data)>>]

parse_transfers_DropMalformed(receipt, token_contract) ==
    LET kept == SelectSeq(receipt.logs,
                          LAMBDA lg : KeepLog(lg, token_contract) /\ lg.data # <<>>)
    IN [i \in 1..Len(kept) |-> <<Lower(kept[i].topics[3].lo), HexInt(kept[i].data)>>]

\* The (address, amount) pairs of a receipt's Transfer logs of the token.
parse_transfers_from_receipt(receipt, token_contract) ==
    LET kept == SelectSeq(receipt.logs, LAMBDA lg : KeepLog(lg, token_contract))
    IN [i \in 1..Len(kept) |-> <<Lower(kept[i].topics[3].lo), HexInt(kept[i].data)>>]

\* receipt.get on a text, or topics[2] of a kept log with fewer topics, raises.
ParseRaises(receipt, token_contract) ==
    \/ receipt.kind = "text"
    \/ \E i \in 1..Len(receipt.logs) :
          KeepLog(receipt.logs[i], token_contract) /\ Len(receipt.logs[i].topics) < 3

(* ----------------------- analyze_contract_activity --------------------- *)

ContractStake == Addr(801)
ContractPool == Addr(802)

CfgDefault ==
    << <<ContractStake, [category |-> "staking", functions |-> << <<"a", "b">>, <<"c">> >>]>>,
       <<Mixed(802), [category |-> "liquidity", functions |-> << <<"B">> >>]>> >>
CfgOther ==
    << <<ContractStake, [category |-> "", functions |-> << <<"a">> >>]>>,
       <<ContractPool, [category |-> "rewards", functions |-> << <<"c">>, <<"a">> >>]>>,
       <<Addr(803), [category |-> "staking", functions |-> << >>]>> >>

SkipContract_CategoryOnly(config) == config.category = ""

\* "if not category or not function_names: continue"
SkipContract(config) == config.category = "" \/ Len(config.functions) = 0

\* The first contract at or after position i that is not skipped, 0 if none.
NextContract(contracts, i) ==
    LET live == {k \in i..Len(contracts) : ~SkipContract(contracts[k][2])}
    IN IF live = {} THEN 0 ELSE CHOOSE k \in live : \A m \in live : k <= m

FunctionMatched_CaseSensitive(function_names, function_name) ==
    \E i \in 1..Len(function_names) : IsSubstr(function_names[i], function_name)

FunctionMatched(function_names, function_name) ==
    \E i \in 1..Len(function_names) :
        IsSubstr(LowerStr(function_names[i]), LowerStr(function_name))

\* One transfer record added to the totals (address -> category -> value).
AddActivity(activity, tx, config) ==
    LET from_addr == Lower(tx.from) IN
    IF ~DictHas(activity, from_addr) THEN activity
    ELSE IF ~FunctionMatched(config.functions, tx.functionName) THEN activity
    ELSE LET mine == DictGet(activity, from_addr, <<>>)
         IN DictPut(activity, from_addr,
                    DictPut(mine, config.category,
                            DictGet(mine, config.category, 0) + tx.value))

RECURSIVE Aggregate(_, _, _, _)
Aggregate(activity, transfers, config, n) ==
    IF n = 0 THEN activity
    ELSE AddActivity(Aggregate(activity, transfers, config, n - 1), transfers[n], config)

(* -------------------------- fetch_airdrop_data ------------------------- *)

\* Addresses processed in test mode
TestModeLimit == 100

\* received[addr] = received.get(addr, 0) + amount, for transfers lo..hi in order
RECURSIVE AddTransfers(_, _, _, _)
AddTransfers(received, transfers, lo, hi) ==
    IF lo > hi THEN received
    ELSE IF lo = hi
    THEN DictPut(received, transfers[lo][1],
                 DictGet(received, transfers[lo][1], 0) + transfers[lo][2])
    ELSE LET mid == (lo + hi) \div 2
             left == AddTransfers(received, transfers, lo, mid)
         IN \* the test makes TLC evaluate left here, not at the bottom of the recursion
            IF Len(left) >= 0 THEN AddTransfers(left, transfers, mid + 1, hi) ELSE left

RECURSIVE BalanceLookup_FirstSeen(_, _)
BalanceLookup_FirstSeen(all_holders, n) ==
    IF n = 0 THEN <<>>
    ELSE LET before == BalanceLookup_FirstSeen(all_holders, n - 1)
             key == Lower(all_holders[n].TokenHolderAddress)
         IN IF DictHas(before, key) THEN before
            ELSE Append(before, <<key, all_holders[n].TokenHolderQuantity>>)

\* {holder['TokenHolderAddress'].lower(): Decimal(holder['TokenHolderQuantity'])
\*  for holder in all_holders}, over the first n holders
RECURSIVE BalanceLookup(_, _)
BalanceLookup(all_holders, n) ==
    IF n = 0 THEN <<>>
    ELSE DictPut(BalanceLookup(all_holders, n - 1),
                 Lower(all_holders[n].TokenHolderAddress),
                 all_holders[n].TokenHolderQuantity)

Alphabetical_AsFound == <<"staking", "liquidity", "rewards">>

\* The labels the model uses, in the order sorted() gives them.
Alphabetical == <<"liquidity", "rewards", "staking">>

AllCategories(activity) ==
    LET found == UNION {{activity[i][2][k][1] : k \in 1..Len(activity[i][2])} : i \in 1..Len(activity)}
    IN SelectSeq(Alphabetical, LAMBDA c : c \in found)

Addresses_OneLess(received, test_mode) ==
    IF test_mode THEN Prefix(DictKeys(received), TestModeLimit - 1) ELSE DictKeys(received)

\* The addresses the join goes through: all recipients, or the first 100.
Addresses(received, test_mode) ==
    IF test_mode THEN Prefix(DictKeys(received), TestModeLimit) ELSE DictKeys(received)

Row(addr, received, balance_lookup, activity, all_categories, decimals) ==
    LET received_wei == DictGet(received, addr, 0)
        balance_wei == DictGet(balance_lookup, Lower(addr), 0)
        addr_activity == DictGet(activity, Lower(addr), <<>>)
    IN <<addr,
         format_decimal(received_wei, decimals),
         format_decimal(balance_wei, decimals),
         format_decimal(balance_wei - received_wei, decimals),
         PercentText(balance_wei, received_wei)>>
       \o [k \in 1..Len(all_categories) |->
              format_decimal(DictGet(addr_activity, all_categories[k], 0), decimals)]

\* sorted(rows, key=lambda r: Decimal(r[2]), reverse=True): stable.
SortKey(r) == DecimalOf(r[3])

\* The place of rows[i] in the sorted list: after every row with a larger
\* key and after the earlier rows with the same key.
SortRows(rows) ==
    LET n == Len(rows)
        keys == [i \in 1..n |-> SortKey(rows[i])] \o <<>>
        place == [i \in 1..n |->
                    Cardinality({k \in 1..n :
                        keys[k] > keys[i] \/ (keys[k] = keys[i] /\ k <= i)})] \o <<>>
    IN [p \in 1..n |-> rows[CHOOSE i \in 1..n : place[i] = p]]

Header(all_categories) ==
    <<"address", "received_total_YB", "current_balance_YB", "delta_YB", "percent_remaining">>
    \o [k \in 1..Len(all_categories) |-> <<all_categories[k], "_value_YB">>]

\* Where an exception raised inside fetch_airdrop_data lands.
RaisePc(j, exc) ==
    IF req[j].entry = "fetch_airdrop_data" THEN "raised"
    ELSE IF exc = "SystemExit" THEN "proc_finally" ELSE "proc_except"

StartFetch(addr, hash) == [NoFetch EXCEPT !.addr = addr, !.hash = hash]

\* "if not receipt": only {} is falsy; a receipt without logs is not.
NotReceipt_NoLogs(receipt) == receipt.kind = "empty" \/ Len(receipt.logs) = 0
NotReceipt(receipt) == receipt.kind = "empty"

PauseAfter_Each(idx, n) == TRUE

\* "if idx < len(tx_hashes): time.sleep(1)"
PauseAfter(idx, n) == idx < n

\* Lines 521-535: the receipt came back.
AfterReceipt(j) ==
    /\ pc[j] = "fad_receipt"
    /\ LET l == loc[j]
           receipt == ret[j]
           token == req[j].token
           counted == [l EXCEPT !.api_calls = l.api_calls + 1]
           more == l.idx < Len(req[j].txhashes)
       IN IF NotReceipt(receipt)
          THEN /\ loc' = [loc EXCEPT ![j] = [counted EXCEPT !.exc = "SystemExit"]]
               /\ pc' = [pc EXCEPT ![j] = RaisePc(j, "SystemExit")]
               /\ WriteStdout(j, {Line(j, 525, <<req[j].txhashes[l.idx]>>)})
               /\ UNCHANGED <<fetch, trace>>
          ELSE IF ParseRaises(receipt, token)
          THEN /\ loc' = [loc EXCEPT ![j] = [counted EXCEPT !.exc = "Exception"]]
               /\ pc' = [pc EXCEPT ![j] = RaisePc(j, "Exception")]
               /\ UNCHANGED <<fetch, trace, log_files>>
          ELSE LET transfers == parse_transfers_from_receipt(receipt, token)
                   received == AddTransfers(l.received, transfers, 1, Len(transfers))
               IN /\ loc' = [loc EXCEPT ![j] =
                        [counted EXCEPT !.received = received,
                            !.idx = IF more THEN l.idx + 1 ELSE l.idx,
                            !.pauses = IF PauseAfter(l.idx, Len(req[j].txhashes))
                                      THEN l.pauses + 1 ELSE l.pauses,
                            !.addresses = IF more THEN <<>>
                                          ELSE Addresses(received, req[j].test_mode)]]
                  /\ trace' = [trace EXCEPT ![j] = <<>>]
                  /\ fetch' = [fetch EXCEPT ![j] =
                        IF more THEN StartFetch(token, req[j].txhashes[l.idx + 1])
                        ELSE StartFetch(token, "-")]
                  /\ pc' = [pc EXCEPT ![j] = IF more THEN "receipt_req" ELSE "count_req"]
                  /\ WriteStdout(j, {Line(j, 529, <<>>)} \cup
                        IF more THEN {Line(j, 520, <<req[j].txhashes[l.idx + 1]>>)}
                        ELSE {Line(j, 542, <<>>)})
    /\ UNCHANGED <<req, ret, provider, files, old, globals, stdout, results>>

\* Lines 546-556: the holder count came back; the holder list is fetched.
AfterHolderCount(j) ==
    /\ pc[j] = "fad_count"
    /\ loc' = [loc EXCEPT ![j].api_calls = loc[j].api_calls + 1]
    /\ fetch' = [fetch EXCEPT ![j] = StartFetch(req[j].token, "-")]
    /\ trace' = [trace EXCEPT ![j] = <<>>]
    /\ pc' = [pc EXCEPT ![j] = "holders_req"]
    /\ WriteStdout(j, {Line(j, 550, <<>>)})
    /\ UNCHANGED <<req, ret, provider, files, old, globals, stdout, results>>

\* Lines 558-577 and 378-401: the holder list came back; the lookup is built
\* and analyze_contract_activity starts on the configured contracts.
AfterHolders(j) ==
    /\ pc[j] = "fad_holders"
    /\ LET l == loc[j]
           all_holders == ret[j]
           pages_fetched == (Len(all_holders) \div PageSize) + 1
           contracts == DEFAULT_CONTRACTS_AND_FUNCTIONS
           first == NextContract(contracts, 1)
       IN /\ loc' = [loc EXCEPT ![j] =
                [l EXCEPT !.api_calls = l.api_calls + pages_fetched,
                    !.balance_lookup = BalanceLookup(all_holders, Len(all_holders)),
                    !.contracts = contracts,
                    !.ci = first,
                    !.activity = [i \in 1..Len(l.addresses) |-> <<Lower(l.addresses[i]), <<>> >>]]]
          /\ fetch' = [fetch EXCEPT ![j] =
                IF first = 0 THEN fetch[j] ELSE StartFetch(contracts[first][1], "-")]
          /\ trace' = [trace EXCEPT ![j] = IF first = 0 THEN trace[j] ELSE <<>>]
          /\ pc' = [pc EXCEPT ![j] = IF first = 0 THEN "fad_join" ELSE "transfers_req"]
          /\ WriteStdout(j, {Line(j, 563, <<>>)} \cup
                IF first = 0 THEN {}
                ELSE {Line(j, 392, <<contracts[first][2].category>>)})
    /\ UNCHANGED <<req, ret, provider, files, old, globals, stdout, results>>

\* Lines 403-435: a contract's transfers came back and are aggregated.
AfterTransfers(j) ==
    /\ pc[j] = "aca_transfers"
    /\ LET l == loc[j]
           transfers == ret[j]
           config == l.contracts[l.ci][2]
           next == NextContract(l.contracts, l.ci + 1)
       IN /\ loc' = [loc EXCEPT ![j] =
                [l EXCEPT !.activity = Aggregate(l.activity, transfers, config, Len(transfers)),
                          !.ci = next]]
          /\ fetch' = [fetch EXCEPT ![j] =
                IF next = 0 THEN fetch[j] ELSE StartFetch(l.contracts[next][1], "-")]
          /\ trace' = [trace EXCEPT ![j] = IF next = 0 THEN trace[j] ELSE <<>>]
          /\ pc' = [pc EXCEPT ![j] = IF next = 0 THEN "fad_join" ELSE "transfers_req"]
          /\ WriteStdout(j, {Line(j, 403, <<>>)} \cup
                IF next = 0 THEN {}
                ELSE {Line(j, 392, <<l.contracts[next][2].category>>)})
    /\ UNCHANGED <<req, ret, provider, files, old, globals, stdout, results>>

\* Where fetch_airdrop_data returns to.
ReturnPc(j) == IF req[j].entry = "fetch_airdrop_data" THEN "done" ELSE "proc_restore"

NotFound_ZeroShown(balance_lookup, addr, decimals) ==
    DecimalOf(format_decimal(DictGet(balance_lookup, Lower(addr), 0), decimals)) = 0

\* "if balance_wei == 0 and addr.lower() not in balance_lookup"
NotFound(balance_lookup, addr, decimals) ==
    /\ DictGet(balance_lookup, Lower(addr), 0) = 0
    /\ ~DictHas(balance_lookup, Lower(addr))

\* Lines 579-667: the join, the ranking and the output file.
Join(j) ==
    /\ pc[j] = "fad_join"
    /\ LET l == loc[j]
           all_categories == AllCategories(l.activity)
           rows == [i \in 1..Len(l.addresses) |->
                      Row(l.addresses[i], l.received, l.balance_lookup, l.activity,
                          all_categories, DECIMALS)] \o <<>>
           rows_sorted == SortRows(rows)
           missing == {i \in 1..Len(l.addresses) :
                          NotFound(l.balance_lookup, l.addresses[i], DECIMALS)}
       IN /\ loc' = [loc EXCEPT ![j].not_found = Cardinality(missing),
                                ![j].scale = Some(DECIMALS)]
          /\ files' = [files EXCEPT ![j] =
                [header |-> Header(all_categories), rows |-> rows_sorted]]
          /\ ret' = [ret EXCEPT ![j] = [rows |-> rows_sorted, api_calls |-> l.api_calls]]
          /\ pc' = [pc EXCEPT ![j] = ReturnPc(j)]
          /\ WriteStdout(j, {Line(j, 586, all_categories), Line(j, 658, <<>>)})
    /\ UNCHANGED <<req, fetch, trace, provider, old, globals, stdout, results>>

(* --------------- the fetchers called directly (as a library) ----------- *)

MaxChoices == {None} \cup {Some(m) : m \in 0..MaxCount}

InitFetch ==
    /\ \E n \in 0..MaxRecords :
         net = [holders |-> [t \in Tokens |-> HolderData(n)],
                transfers |-> [c \in {ContractStake} |-> TransferData(n)]]
    /\ \E e \in {"fetch_transaction_receipt", "get_token_holder_count",
                 "get_all_token_holders", "get_all_token_transfers"},
          m \in MaxChoices, h \in {"h0", "h1"} :
         /\ e \in {"fetch_transaction_receipt", "get_token_holder_count"} => m = None
         /\ e # "fetch_transaction_receipt" => h = "h0"
         /\ pc = [j \in Jobs |-> IF j # "j1" THEN "off"
                    ELSE CASE e = "fetch_transaction_receipt" -> "receipt_req"
                           [] e = "get_token_holder_count" -> "count_req"
                           [] e = "get_all_token_holders" -> "holders_req"
                           [] e = "get_all_token_transfers" -> "transfers_req"]
         /\ req = [j \in Jobs |-> IF j # "j1" THEN NoReq
                    ELSE [NoReq EXCEPT !.entry = e, !.max = m]]
         /\ fetch = [j \in Jobs |-> IF j # "j1" THEN NoFetch
                    ELSE [NoFetch EXCEPT !.max = m, !.hash = h,
                            !.addr = IF e = "get_all_token_transfers" THEN Mixed(801) ELSE TokenA]]
    /\ ret = [j \in Jobs |-> <<>>]
    /\ trace = [j \in Jobs |-> <<>>]
    /\ sent = [j \in Jobs |-> NoneSent]
    /\ faults = 0
    /\ budget = MaxFaults
    /\ loc = [j \in Jobs |-> NoLoc]
    /\ files = [j \in Jobs |-> <<>>]
    /\ old = [j \in Jobs |-> NoOld]
    /\ stdout = "terminal"
    /\ log_files = [j \in Jobs |-> NoLog]
    /\ results = [j \in Jobs |-> <<>>]
    /\ TOKEN_CONTRACT = TokenA
    /\ DECIMALS = 18
    /\ DEFAULT_CONTRACTS_AND_FUNCTIONS = CfgDefault

NextFetch ==
    \E j \in Jobs :
        \/ ReceiptAttempt(j)
        \/ HolderCountAttempt(j)
        \/ HolderPage(j)
        \/ TransferPage(j)

SpecFetch == InitFetch /\ [][NextFetch]_vars

(* ------------------ fetch_airdrop_data called directly ----------------- *)

\* The provider's data for the pipeline runs.
RunHolders ==
    <<[TokenHolderAddress |-> Addr(2), TokenHolderQuantity |-> 1004],
      [TokenHolderAddress |-> Mixed(1), TokenHolderQuantity |-> 1001],
      [TokenHolderAddress |-> Addr(9), TokenHolderQuantity |-> 2675]>>

StakeTransfers ==
    <<[from |-> Mixed(1), functionName |-> <<"x", "A", "b">>, value |-> 300],
      [from |-> Addr(2), functionName |-> <<"c", "a", "b">>, value |-> 125],
      [from |-> Addr(9), functionName |-> <<"a", "b">>, value |-> 50],
      [from |-> Addr(1), functionName |-> <<"b", "a">>, value |-> 70]>>

PoolTransfers ==
    <<[from |-> Addr(2), functionName |-> <<"a", "b">>, value |-> 15]>>

RunNet ==
    [holders |-> [t \in Tokens |-> IF t = TokenA THEN RunHolders ELSE <<>>],
     transfers |-> [c \in {ContractStake, ContractPool} |->
                       IF c = ContractStake THEN StakeTransfers ELSE PoolTransfers]]

TxChoices == {<<"h1">>, <<"h0", "h1">>, <<"h1", "h2">>, <<"h2", "h0">>, <<"hBig">>}

\* A call of fetch_airdrop_data by job j: its arguments and first request.
CallFetchAirdropData(j, entry, token, txhashes, test_mode, decimals, contracts) ==
    /\ req' = [req EXCEPT ![j] = [NoReq EXCEPT !.entry = entry, !.token = token,
                    !.txhashes = txhashes, !.test_mode = test_mode,
                    !.decimals = decimals, !.contracts = contracts]]
    /\ loc' = [loc EXCEPT ![j] = [NoLoc EXCEPT !.idx = 1]]
    /\ fetch' = [fetch EXCEPT ![j] = StartFetch(token, txhashes[1])]
    /\ pc' = [pc EXCEPT ![j] = "receipt_req"]
    /\ WriteStdout(j, {Line(j, 511, <<>>), Line(j, 520, <<txhashes[1]>>)})

InitRun ==
    /\ pc = [j \in Jobs |-> "off"]
    /\ req = [j \in Jobs |-> NoReq]
    /\ fetch = [j \in Jobs |-> NoFetch]
    /\ ret = [j \in Jobs |-> <<>>]
    /\ trace = [j \in Jobs |-> <<>>]
    /\ sent = [j \in Jobs |-> NoneSent]
    /\ faults = 0
    /\ budget = MaxFaults
    /\ net = RunNet
    /\ loc = [j \in Jobs |-> NoLoc]
    /\ files = [j \in Jobs |-> <<>>]
    /\ old = [j \in Jobs |-> NoOld]
    /\ stdout = "terminal"
    /\ log_files = [j \in Jobs |-> NoLog]
    /\ results = [j \in Jobs |-> <<>>]
    /\ TOKEN_CONTRACT = TokenA
    /\ DECIMALS = 18
    /\ DEFAULT_CONTRACTS_AND_FUNCTIONS = CfgDefault

\* main(): fetch_airdrop_data(tx_hashes=args.tx, test_mode=args.test)
Main(j) ==
    /\ pc[j] = "off"
    /\ j = "j1"
    /\ \E txhashes \in TxChoices, test_mode \in BOOLEAN :
          CallFetchAirdropData(j, "fetch_airdrop_data", TokenA, txhashes, test_mode,
                               DECIMALS, DEFAULT_CONTRACTS_AND_FUNCTIONS)
    /\ UNCHANGED <<ret, trace, provider, files, old, globals, stdout, results>>

Pipeline(j) ==
    \/ ReceiptAttempt(j)
    \/ AfterReceipt(j)
    \/ HolderCountAttempt(j)
    \/ AfterHolderCount(j)
    \/ HolderPage(j)
    \/ AfterHolders(j)
    \/ TransferPage(j)
    \/ AfterTransfers(j)
    \/ Join(j)

NextRun == \E j \in Jobs : Main(j) \/ Pipeline(j)

SpecRun == InitRun /\ [][NextRun]_vars

(* --------------------- the join over drawn inputs ---------------------- *)

\* Amounts in the token's smallest unit; with 2 or 3 decimals they lie on and
\* off the .xx5 boundaries of the display.
JoinAmounts == {0, 15, 135, 1005, 1200, 1250}
JoinBalances == {0, 15, 135, 1250}
JoinDecimals == {0, 2, 3}
JoinActivities ==
    {<<>>,
     << <<"staking", 135>> >>,
     << <<"liquidity", 15>> >>,
     << <<"staking", 1250>>, <<"liquidity", 0>> >>}

\* fetch_airdrop_data at line 579: receipts, holders and activity are in.
InitJoin ==
    /\ \E r1, r2 \in JoinAmounts, b1, b2 \in JoinBalances \cup {-1},
          v1, v2 \in JoinActivities, d \in JoinDecimals :
         /\ loc = [j \in Jobs |-> IF j # "j1" THEN NoLoc ELSE
                [NoLoc EXCEPT !.idx = 1, !.api_calls = 4,
                    !.received = << <<Addr(1), r1>>, <<Addr(2), r2>> >>,
                    !.addresses = <<Addr(1), Addr(2)>>,
                    !.balance_lookup =
                        (IF b2 < 0 THEN <<>> ELSE << <<Addr(2), b2>> >>)
                        \o (IF b1 < 0 THEN <<>> ELSE << <<Addr(1), b1>> >>),
                    !.contracts = CfgDefault,
                    !.activity = << <<Addr(1), v1>>, <<Addr(2), v2>> >>]]
         /\ req = [j \in Jobs |-> IF j # "j1" THEN NoReq ELSE
                [NoReq EXCEPT !.entry = "fetch_airdrop_data", !.txhashes = <<"h1">>,
                              !.decimals = d, !.contracts = CfgDefault]]
         /\ DECIMALS = d
    /\ pc = [j \in Jobs |-> IF j = "j1" THEN "fad_join" ELSE "off"]
    /\ fetch = [j \in Jobs |-> NoFetch]
    /\ ret = [j \in Jobs |-> <<>>]
    /\ trace = [j \in Jobs |-> <<>>]
    /\ sent = [j \in Jobs |-> NoneSent]
    /\ faults = 0
    /\ budget = 0
    /\ net = RunNet
    /\ files = [j \in Jobs |-> <<>>]
    /\ old = [j \in Jobs |-> NoOld]
    /\ stdout = "terminal"
    /\ log_files = [j \in Jobs |-> NoLog]
    /\ results = [j \in Jobs |-> <<>>]
    /\ TOKEN_CONTRACT = TokenA
    /\ DEFAULT_CONTRACTS_AND_FUNCTIONS = CfgDefault

NextJoin == \E j \in Jobs : Join(j)

SpecJoin == InitJoin /\ [][NextJoin]_vars

(* ----------------- the balance lookup over drawn lists ----------------- *)

\* Most records of a drawn holder list
MaxHolders == 3

\* The spellings and balances the drawn holder records carry.
LookupAddresses == {Addr(1), Mixed(1), Addr(2)}
LookupQuantities == {5, 7}
HolderLists ==
    UNION {[1..n -> [TokenHolderAddress : LookupAddresses,
                     TokenHolderQuantity : LookupQuantities]] : n \in 0..MaxHolders}

\* fetch_airdrop_data at line 556: the receipts and the holder count are in
\* and get_all_token_holders is called.
InitLookup ==
    /\ \E holders \in HolderLists :
          net = [RunNet EXCEPT !.holders[TokenA] = holders]
    /\ pc = [j \in Jobs |-> IF j = "j1" THEN "holders_req" ELSE "off"]
    /\ req = [j \in Jobs |-> IF j # "j1" THEN NoReq ELSE
            [NoReq EXCEPT !.entry = "fetch_airdrop_data", !.txhashes = <<"h1">>,
                          !.decimals = 18, !.contracts = CfgDefault]]
    /\ loc = [j \in Jobs |-> IF j # "j1" THEN NoLoc ELSE
            [NoLoc EXCEPT !.idx = 1, !.api_calls = 2,
                !.received = << <<Addr(1), 1500>>, <<Addr(2), 1000>> >>,
                !.addresses = <<Addr(1), Addr(2)>>]]
    /\ fetch = [j \in Jobs |-> IF j = "j1" THEN StartFetch(TokenA, "-") ELSE NoFetch]
    /\ ret = [j \in Jobs |-> <<>>]
    /\ trace = [j \in Jobs |-> <<>>]
    /\ sent = [j \in Jobs |-> IF j # "j1" THEN NoneSent
                               ELSE [NoneSent EXCEPT !["receipt"] = 1, !["tokenholdercount"] = 1]]
    /\ faults = 0
    /\ budget = 1
    /\ files = [j \in Jobs |-> <<>>]
    /\ old = [j \in Jobs |-> NoOld]
    /\ stdout = "terminal"
    /\ log_files = [j \in Jobs |-> NoLog]
    /\ results = [j \in Jobs |-> <<>>]
    /\ TOKEN_CONTRACT = TokenA
    /\ DECIMALS = 18
    /\ DEFAULT_CONTRACTS_AND_FUNCTIONS = CfgDefault

NextLookup == \E j \in Jobs : HolderPage(j) \/ AfterHolders(j)

SpecLookup == InitLookup /\ [][NextLookup]_vars

(* ------------------------------ app.py --------------------------------- *)

\* What the forms posted to /run ask for: token, decimals, hashes, contracts.
\* An empty contracts field stands for the default configuration.
Form(token, decimals, txhashes, contracts) ==
    [NoReq EXCEPT !.entry = "process", !.token = token, !.decimals = decimals,
                  !.txhashes = txhashes, !.contracts = contracts]

Forms == {Form(TokenA, 18, <<"h1">>, CfgDefault),
          Form(TokenA, 3, <<"h1">>, CfgOther),
          Form(TokenB, 3, <<"hX">>, CfgOther),
          Form(TokenB, 0, <<"hText">>, CfgDefault),
          Form(TokenA, 18, <<"[DONE]">>, CfgDefault)}

\* run(): the form is read and the thread of process() is started.
Run(j) ==
    /\ pc[j] = "off"
    /\ \E form \in Forms : req' = [req EXCEPT ![j] = form]
    /\ pc' = [pc EXCEPT ![j] = "open_log"]
    /\ UNCHANGED <<fetch, ret, trace, provider, loc, files, old, globals, streams>>

\* process(), lines 51-53: the log file is opened and sys.stdout is read
\* and then assigned.
RedirectStdout(j) ==
    /\ \/ /\ pc[j] = "open_log"
          /\ log_files' = [log_files EXCEPT ![j].state = "open"]
          /\ old' = [old EXCEPT ![j].stdout = Some(stdout)]
          /\ pc' = [pc EXCEPT ![j] = "set_stdout"]
          /\ UNCHANGED stdout
       \/ /\ pc[j] = "set_stdout"
          /\ stdout' = j
          /\ pc' = [pc EXCEPT ![j] = "save_token"]
          /\ UNCHANGED <<log_files, old>>
    /\ UNCHANGED <<req, fetch, ret, trace, provider, loc, files, globals, results>>

\* process(), lines 57-59: the three globals are read one after the other.
SaveGlobal(j) ==
    /\ \/ /\ pc[j] = "save_token"
          /\ old' = [old EXCEPT ![j].token = Some(TOKEN_CONTRACT)]
          /\ pc' = [pc EXCEPT ![j] = "save_decimals"]
       \/ /\ pc[j] = "save_decimals"
          /\ old' = [old EXCEPT ![j].decimals = Some(DECIMALS)]
          /\ pc' = [pc EXCEPT ![j] = "save_contracts"]
       \/ /\ pc[j] = "save_contracts"
          /\ old' = [old EXCEPT ![j].contracts = Some(DEFAULT_CONTRACTS_AND_FUNCTIONS)]
          /\ pc' = [pc EXCEPT ![j] = "set_token"]
    /\ UNCHANGED <<req, fetch, ret, trace, provider, loc, files, globals, streams>>

\* process(), lines 61-63: the request's values are installed.
InstallGlobal(j) ==
    /\ \/ /\ pc[j] = "set_token"
          /\ TOKEN_CONTRACT' = req[j].token
          /\ pc' = [pc EXCEPT ![j] = "set_decimals"]
          /\ UNCHANGED <<DECIMALS, DEFAULT_CONTRACTS_AND_FUNCTIONS>>
       \/ /\ pc[j] = "set_decimals"
          /\ DECIMALS' = req[j].decimals
          /\ pc' = [pc EXCEPT ![j] = "set_contracts"]
          /\ UNCHANGED <<TOKEN_CONTRACT, DEFAULT_CONTRACTS_AND_FUNCTIONS>>
       \/ /\ pc[j] = "set_contracts"
          /\ DEFAULT_CONTRACTS_AND_FUNCTIONS' = req[j].contracts
          /\ pc' = [pc EXCEPT ![j] = "call"]
          /\ UNCHANGED <<TOKEN_CONTRACT, DECIMALS>>
    /\ UNCHANGED <<req, fetch, ret, trace, provider, loc, files, old, streams>>

\* process(), line 68: fetch_airdrop_data(tx_hashes, output_file, token_contract)
Call(j) ==
    /\ pc[j] = "call"
    /\ CallFetchAirdropData(j, "process", req[j].token, req[j].txhashes, FALSE,
                            req[j].decimals, req[j].contracts)
    /\ UNCHANGED <<ret, trace, provider, files, old, globals, stdout, results>>

\* process(), lines 70-72: the saved values are put back.
RestoreGlobal(j) ==
    /\ \/ /\ pc[j] = "proc_restore"
          /\ TOKEN_CONTRACT' = old[j].token[1]
          /\ pc' = [pc EXCEPT ![j] = "restore_decimals"]
          /\ UNCHANGED <<DECIMALS, DEFAULT_CONTRACTS_AND_FUNCTIONS>>
       \/ /\ pc[j] = "restore_decimals"
          /\ DECIMALS' = old[j].decimals[1]
          /\ pc' = [pc EXCEPT ![j] = "restore_contracts"]
          /\ UNCHANGED <<TOKEN_CONTRACT, DEFAULT_CONTRACTS_AND_FUNCTIONS>>
       \/ /\ pc[j] = "restore_contracts"
          /\ DEFAULT_CONTRACTS_AND_FUNCTIONS' = old[j].contracts[1]
          /\ pc' = [pc EXCEPT ![j] = "proc_result"]
          /\ UNCHANGED <<TOKEN_CONTRACT, DECIMALS>>
    /\ UNCHANGED <<req, fetch, ret, trace, provider, loc, files, old, streams>>

\* process(), lines 75-93: the result file is written, or "except
\* Exception" writes the error to the log; a SystemExit passes the handler.
Finish(j) ==
    /\ \/ /\ pc[j] = "proc_result"
          /\ results' = [results EXCEPT ![j] =
                [csv_file |-> j, count |-> Len(ret[j].rows), api_calls |-> ret[j].api_calls,
                 headers |-> files[j].header,
                 preview |-> Prefix(files[j].rows, TestModeLimit)]]
          /\ UNCHANGED log_files
       \/ /\ pc[j] = "proc_except"
          /\ log_files' = [log_files EXCEPT ![j] = Write(log_files[j], {Line(j, 93, <<"ERROR">>)})]
          /\ UNCHANGED results
    /\ pc' = [pc EXCEPT ![j] = "proc_finally"]
    /\ UNCHANGED <<req, fetch, ret, trace, provider, loc, files, old, globals, stdout>>

\* process(), lines 94-96 and the end of "with": sys.stdout is put back,
\* the marker is written and the log file is closed.
Finally(j) ==
    /\ \/ /\ pc[j] = "proc_finally"
          /\ stdout' = old[j].stdout[1]
          /\ pc' = [pc EXCEPT ![j] = "proc_marker"]
          /\ UNCHANGED log_files
       \/ /\ pc[j] = "proc_marker"
          /\ log_files' = [log_files EXCEPT ![j] =
                [state |-> "closed", pending |-> {}, writes |-> 0,
                 disk |-> log_files[j].disk \cup log_files[j].pending
                          \cup {Line(j, 96, <<"[DONE]">>)}]]
          /\ pc' = [pc EXCEPT ![j] = "finished"]
          /\ UNCHANGED stdout
    /\ UNCHANGED <<req, fetch, ret, trace, provider, loc, files, old, globals, results>>

\* poll(), lines 107-117: the answer to /poll for a job, from its log file.
poll(j) ==
    IF log_files[j].state = "none" THEN [lines |-> {"Initializing..."}, done |-> FALSE]
    ELSE [lines |-> log_files[j].disk,
          done |-> \E line \in log_files[j].disk :
                      \E k \in 1..Len(line.tokens) : line.tokens[k] = "[DONE]"]

\* result(), lines 125-141: the answer to /result for a job.
result(j) == IF results[j] = <<>> THEN "Processing not complete" ELSE results[j]

Init ==
    /\ pc = [j \in Jobs |-> "off"]
    /\ req = [j \in Jobs |-> NoReq]
    /\ fetch = [j \in Jobs |-> NoFetch]
    /\ ret = [j \in Jobs |-> <<>>]
    /\ trace = [j \in Jobs |-> <<>>]
    /\ sent = [j \in Jobs |-> NoneSent]
    /\ faults = 0
    /\ budget = 0
    /\ net = RunNet
    /\ loc = [j \in Jobs |-> NoLoc]
    /\ files = [j \in Jobs |-> <<>>]
    /\ old = [j \in Jobs |-> NoOld]
    /\ stdout = "terminal"
    /\ log_files = [j \in Jobs |-> NoLog]
    /\ results = [j \in Jobs |-> <<>>]
    /\ TOKEN_CONTRACT = TokenA
    /\ DECIMALS = 18
    /\ DEFAULT_CONTRACTS_AND_FUNCTIONS = CfgDefault

Process(j) ==
    \/ RedirectStdout(j)
    \/ SaveGlobal(j)
    \/ InstallGlobal(j)
    \/ Call(j)
    \/ Pipeline(j)
    \/ RestoreGlobal(j)
    \/ Finish(j)
    \/ Finally(j)

Next == \E j \in Jobs : Run(j) \/ Process(j)

Spec == Init /\ [][Next]_vars

(* ------------------------- claims on the fetchers ---------------------- *)

Requests(t) == SelectSeq(t, LAMBDA e : e.ev = "request")
Sleeps(t) == SelectSeq(t, LAMBDA e : e.ev = "sleep")

Paginated == {"get_all_token_holders", "get_all_token_transfers"}
Retrying == {"fetch_transaction_receipt", "get_token_holder_count"}

\* The list the provider holds behind the endpoint a direct call pages through.
DataOf(j) ==
    IF req[j].entry = "get_all_token_holders"
    THEN net.holders[Lower(fetch[j].addr)]
    ELSE TransfersOf(fetch[j].addr)

\* C6: in every provider-facing fetch, a response carrying a rate-limit
\* signal is followed by the longer sleep, and the fetch does not end on it
\* while attempts of its budget are left.
C6_RateLimitRetried ==
    \A j \in Jobs :
        LET t == trace[j] IN
        \A i \in 1..Len(t) :
            (t[i].ev = "request" /\ t[i].res = "rate_limit") =>
                /\ i < Len(t)
                /\ t[i + 1] = Sleep(50)
                /\ (pc[j] = "done" /\ i + 1 = Len(t)) => Len(Requests(t)) >= MAX_RETRIES

\* C7: fetch_transaction_receipt and get_token_holder_count send at most
\* MAX_RETRIES requests whatever the provider answers, sleep after an attempt
\* that failed by timeout or connection failure before the next attempt, stop
\* once the budget is used, and return {} resp. None when every attempt failed.
C7_BoundedRetries ==
    \A j \in Jobs :
        req[j].entry \in Retrying =>
            LET t == trace[j]
                rq == Requests(t)
                failed == IF req[j].entry = "fetch_transaction_receipt"
                          THEN {"exception", "http_error", "rate_limit", "empty"}
                          ELSE {"exception", "http_error", "rate_limit", "api_error"}
            IN /\ Len(rq) <= MAX_RETRIES
               /\ pc[j] # "done" => Len(rq) < MAX_RETRIES
               /\ \A i \in 1..Len(t) :
                    (t[i].ev = "request" /\ t[i].res = "exception"
                        /\ \E k \in (i + 1)..Len(t) : t[k].ev = "request")
                    => t[i + 1] = Sleep(20)
               /\ (pc[j] = "done" /\ \A i \in 1..Len(rq) : rq[i].res \in failed) =>
                    ret[j] = IF req[j].entry = "fetch_transaction_receipt"
                             THEN EmptyReceipt ELSE None

\* Three attempts of one call all failed, by timeout and otherwise, and the
\* call returned its failure value.
C7_Witness ==
    \E j \in Jobs :
        /\ req[j].entry \in Retrying
        /\ pc[j] = "done"
        /\ Len(Requests(trace[j])) = MAX_RETRIES
        /\ \E i \in 1..Len(trace[j]) : trace[j][i].res = "exception"
        /\ \A i \in 1..Len(trace[j]) : trace[j][i].res \notin {"ok", "error_text"}
        /\ ret[j] \in {EmptyReceipt, None}

\* C8: when the provider serves k full pages and then a shorter one (and no
\* maximum count cuts the result), the paginated fetchers return all served
\* records in provider order after exactly k+1 requests for pages 1..k+1,
\* with one sleep between consecutive requests and nothing after the short page.
C8_Pagination ==
    \A j \in Jobs :
        (/\ req[j].entry \in Paginated
         /\ pc[j] = "done"
         /\ \A i \in 1..Len(trace[j]) : trace[j][i].res \in {"ok", "no_tx", "-"}
         /\ Len(Page(DataOf(j), Len(Requests(trace[j])))) < PageSize
         /\ (Truthy(req[j].max) => req[j].max[1] >= Len(DataOf(j))))
        => LET t == trace[j]
               k == Len(DataOf(j)) \div PageSize
           IN /\ ret[j] = DataOf(j)
              /\ Len(Requests(t)) = k + 1
              /\ Len(t) = 2 * k + 1
              /\ \A i \in 1..Len(t) :
                    IF i % 2 = 1
                    THEN t[i].ev = "request" /\ t[i].page = (i + 1) \div 2
                    ELSE t[i] = Sleep(5)

\* Two full pages and a short, non-empty third page were fetched.
C8_Witness ==
    \E j \in Jobs :
        /\ req[j].entry \in Paginated
        /\ pc[j] = "done"
        /\ Len(Requests(trace[j])) = 3
        /\ Len(ret[j]) = 2 * PageSize + 1
        /\ \A i \in 1..Len(trace[j]) : trace[j][i].res \in {"ok", "-"}

\* C9: with a maximum count m configured and a provider that returns full
\* pages, the paginated fetch returns exactly the first m records and sends no
\* request after the page on which the total first reaches m, for every m.
C9_MaxCountEveryM ==
    \A j \in Jobs :
        (/\ req[j].entry \in Paginated
         /\ pc[j] = "done"
         /\ req[j].max # None
         /\ \A i \in 1..Len(trace[j]) : trace[j][i].res \in {"ok", "-"}
         /\ Len(DataOf(j)) >= ((req[j].max[1] + PageSize - 1) \div PageSize) * PageSize)
        => /\ ret[j] = Prefix(DataOf(j), req[j].max[1])
           /\ Len(Requests(trace[j])) = 1
                \/ Len(Requests(trace[j])) * PageSize < req[j].max[1] + PageSize

(* ------------------------ claims on the pipeline ----------------------- *)

Running(j) == req[j].entry = "fetch_airdrop_data"
Last(t) == t[Len(t)]
RowAddresses(rows) == [i \in 1..Len(rows) |-> rows[i][1]]
IsSet(seq) == \A a, b \in 1..Len(seq) : seq[a] = seq[b] => a = b
Range(seq) == {seq[i] : i \in 1..Len(seq)}

\* C2: once the receipt of a hash came back as {} the run is at that return
\* or aborted: no holder-count, holder-list or transfer-history request has
\* been or is sent, no file is written, no rows are returned.  A receipt
\* without logs does not abort the run and leaves the received totals as
\* they were.
ReceiptGaveUp(j) ==
    /\ Running(j) /\ pc[j] # "receipt_req" /\ trace[j] # <<>>
    /\ LET asked == Requests(trace[j])
       IN /\ Len(asked) = MAX_RETRIES
          /\ asked[1].api = "receipt"
          /\ Last(asked).res \notin {"ok", "error_text"}

C2_Aborted ==
    \A j \in Jobs :
        ReceiptGaveUp(j) =>
            /\ pc[j] \in {"fad_receipt", "raised"}
            /\ sent[j]["tokenholdercount"] = 0
            /\ sent[j]["tokenholderlist"] = 0
            /\ sent[j]["tokentx"] = 0
            /\ files[j] = <<>>

C2_Logless ==
    \A j \in Jobs :
        (pc[j] = "fad_receipt" /\ ret[j] = Receipt(<<>>)) =>
            /\ pc'[j] \in {"receipt_req", "count_req"}
            /\ loc'[j].received = loc[j].received
            /\ loc'[j].exc = "-"

C2_ReceiptFailureIsFatal == [](C2_Aborted /\ (pc["j1"] = "raised" => ~ENABLED NextRun))
                            /\ [][C2_Logless]_vars

\* A run whose first receipt had no logs was aborted at its second hash.
C2_Witness ==
    \E j \in Jobs :
        /\ pc[j] = "raised"
        /\ loc[j].exc = "SystemExit"
        /\ loc[j].idx = 2
        /\ req[j].txhashes[1] = "h0"
        /\ ReceiptGaveUp(j)

\* C3 as stated: every completed run returns exactly one row for each
\* address of the received totals and no other row.
C3_RowPerRecipient ==
    \A j \in Jobs :
        (Running(j) /\ pc[j] = "done") =>
            /\ Len(ret[j].rows) = Len(loc[j].received)
            /\ Range(RowAddresses(ret[j].rows)) = Range(DictKeys(loc[j].received))

\* C3 amended: every completed run returns exactly one row for each address
\* of the received totals, or in test mode for each of the first 100
\* addresses of the received totals in encounter order, and no other row.
C3_RowPerProcessedRecipient ==
    \A j \in Jobs :
        (Running(j) /\ pc[j] = "done") =>
            LET keys == DictKeys(loc[j].received)
                expected == IF req[j].test_mode THEN Prefix(keys, TestModeLimit) ELSE keys
                got == RowAddresses(ret[j].rows)
            IN /\ Len(got) = Len(expected)
               /\ Range(got) = Range(expected)
               /\ IsSet(got)
               /\ IsSet(keys)

\* A test-mode run over more than 100 recipients completed.
C3_Witness ==
    \E j \in Jobs :
        /\ Running(j) /\ pc[j] = "done"
        /\ req[j].test_mode
        /\ Len(loc[j].received) > TestModeLimit
        /\ Len(ret[j].rows) = TestModeLimit

Balance(j, addr) == DictGet(loc[j].balance_lookup, Lower(addr), 0)
Encounter(j, addr) == CHOOSE i \in 1..Len(loc[j].addresses) : loc[j].addresses[i] = addr

\* C4: in the returned rows a recipient with a strictly larger current
\* balance comes first, and recipients with equal balance keep the order in
\* which the receipts first named them.
C4_OrderedByBalance ==
    \A j \in Jobs :
        (Running(j) /\ pc[j] = "done") =>
            LET rows == ret[j].rows IN
            \A p, q \in 1..Len(rows) :
                p < q =>
                    \/ Balance(j, rows[p][1]) > Balance(j, rows[q][1])
                    \/ /\ Balance(j, rows[p][1]) = Balance(j, rows[q][1])
                       /\ Encounter(j, rows[p][1]) < Encounter(j, rows[q][1])

\* C5: the API call count a run returns is the number of requests it sent.
C5_ApiCallsCounted ==
    \A j \in Jobs :
        (Running(j) /\ pc[j] = "done") => ret[j].api_calls = TotalSent(j)

ListFailed(j) ==
    /\ Running(j)
    /\ pc[j] \in {"fad_holders", "aca_transfers"}
    /\ Last(trace[j]).res \in Failures

Completed(j) ==
    /\ pc[j] = "done"
    /\ files[j] # <<>>
    /\ files[j].rows = ret[j].rows
    /\ RowAddresses(ret[j].rows) = Addresses(loc[j].received, req[j].test_mode)

C1_OwnConfiguration ==
    \A j \in Jobs :
        req[j].entry = "process" =>
            /\ loc[j].contracts # <<>> => loc[j].contracts = req[j].contracts
            /\ loc[j].scale # None => loc[j].scale = Some(req[j].decimals)

(* ------------------------- claims on the join -------------------------- *)

Zero == [neg |-> FALSE, int |-> 0, frac |-> <<>>]
Absent(j, addr) == \A i \in 1..Len(loc[j].balance_lookup) : loc[j].balance_lookup[i][1] # Lower(addr)
RowOf(rows, addr) == rows[CHOOSE i \in 1..Len(rows) : rows[i][1] = addr]

\* C11 as stated: in a completed run every recipient of the received totals
\* that the holder snapshot lacks has a row whose current balance is 0, and
\* the not-found count is the number of such recipients.
C11_AbsentRecipients ==
    \A j \in Jobs :
        (Running(j) /\ pc[j] = "done") =>
            LET absent == {a \in Range(DictKeys(loc[j].received)) : Absent(j, a)}
            IN /\ \A a \in absent : \E i \in 1..Len(ret[j].rows) :
                      ret[j].rows[i][1] = a /\ ret[j].rows[i][3] = Zero
               /\ loc[j].not_found = Cardinality(absent)

\* C11 amended: the same over the recipients the join processes, which are
\* all recipients, or in test mode the first 100 of them.
C11_AbsentProcessedRecipients ==
    \A j \in Jobs :
        (Running(j) /\ pc[j] = "done") =>
            LET keys == DictKeys(loc[j].received)
                processed == IF req[j].test_mode THEN Prefix(keys, TestModeLimit) ELSE keys
                absent == {a \in Range(processed) : Absent(j, a)}
            IN /\ \A a \in absent : \E i \in 1..Len(ret[j].rows) :
                      ret[j].rows[i][1] = a /\ ret[j].rows[i][3] = Zero
               /\ loc[j].not_found = Cardinality(absent)

\* A completed run with a recipient the snapshot lacks next to recipients it
\* holds, one of them under a mixed-case address.
C11_Witness ==
    \E j \in Jobs :
        /\ Running(j) /\ pc[j] = "done"
        /\ loc[j].not_found = 1
        /\ Len(ret[j].rows) = 3
        /\ Len(loc[j].balance_lookup) = 3

\* "liquidity" < "rewards" < "staking" as Python compares strings
LexLess(a, b) ==
    <<a, b>> \in {<<"liquidity", "rewards">>, <<"liquidity", "staking">>, <<"rewards", "staking">>}

\* The labels with a total under some address of the activity totals.
LabelsOf(activity) ==
    {c \in {"liquidity", "rewards", "staking"} :
        \E i \in 1..Len(activity) : \E k \in 1..Len(activity[i][2]) : activity[i][2][k][1] = c}

HasActivity(activity, addr, c) ==
    \E i \in 1..Len(activity) :
        /\ activity[i][1] = Lower(addr)
        /\ \E k \in 1..Len(activity[i][2]) : activity[i][2][k][1] = c

Total(activity, addr, c) == DictGet(DictGet(activity, Lower(addr), <<>>), c, 0)

\* A record counts for an address under a configuration when it was sent from
\* that address and its function name holds one of the patterns, both
\* whatever the case of the letters.
Qualifies(tx, addr, config) ==
    /\ Lower(tx.from) = Lower(addr)
    /\ \E p \in 1..Len(config.functions) :
          IsSubstr(LowerStr(config.functions[p]), LowerStr(tx.functionName))

RECURSIVE SumQualifying(_, _, _, _)
SumQualifying(transfers, addr, config, n) ==
    IF n = 0 THEN 0
    ELSE SumQualifying(transfers, addr, config, n - 1)
         + (IF Qualifies(transfers[n], addr, config) THEN transfers[n].value ELSE 0)

\* C13: when the records fetched for a contract are aggregated, the total of
\* every tracked recipient under the contract's category grows by the sum of
\* the values of the fetched records that qualify for it, each counted once;
\* no other total changes and no address is added.
C13_Aggregated ==
    \A j \in Jobs :
        (Running(j) /\ pc[j] = "aca_transfers") =>
            LET config == loc[j].contracts[loc[j].ci][2]
                before == loc[j].activity
                after == loc'[j].activity
            IN /\ DictKeys(after) = DictKeys(before)
               /\ \A i \in 1..Len(before) : \A c \in {"liquidity", "rewards", "staking"} :
                    Total(after, before[i][1], c)
                      = Total(before, before[i][1], c)
                        + (IF c = config.category
                           THEN SumQualifying(ret[j], before[i][1], config, Len(ret[j]))
                           ELSE 0)

C13_ActivityTotals == [][C13_Aggregated]_vars

\* Both histories were fetched whole: the record sent from the mixed-case
\* address counts, the record that holds two patterns counts once, the
\* record without a pattern and the one of a non-recipient do not.
C13_Witness ==
    \E j \in Jobs :
        /\ Running(j) /\ pc[j] = "fad_join"
        /\ Total(loc[j].activity, Addr(1), "staking") = 300
        /\ Total(loc[j].activity, Addr(2), "staking") = 125
        /\ Total(loc[j].activity, Addr(2), "liquidity") = 15
        /\ ~DictHas(loc[j].activity, Addr(9))

(* ------------------------ claims on the percent ------------------------ *)

\* The percent a row shows, in hundredths of a percent.
PercentShown(row) == 100 * row[5].int + 10 * row[5].frac[1] + row[5].frac[2]

\* C14: the row of a recipient whose received total is 0 shows 0 percent, and
\* the row of a recipient who received more shows current / received * 100
\* to the nearest hundredth.
C14_PercentGuard ==
    \A j \in Jobs :
        (Running(j) /\ pc[j] = "done") =>
            /\ Len(ret[j].rows) = Len(loc[j].addresses)
            /\ \A i \in 1..Len(ret[j].rows) :
                 LET row == ret[j].rows[i]
                     rcv == DictGet(loc[j].received, row[1], 0)
                     cur == DictGet(loc[j].balance_lookup, Lower(row[1]), 0)
                 IN /\ ~row[5].neg /\ Len(row[5].frac) = 2
                    /\ rcv = 0 => PercentShown(row) = 0
                    /\ rcv > 0 => 2 * Abs(PercentShown(row) * rcv - 10000 * cur) <= rcv

\* A report with a recipient who received 0 and holds tokens next to one
\* who kept a ninth of what was received.
C14_Witness ==
    \E j \in Jobs :
        /\ Running(j) /\ pc[j] = "done"
        /\ \E a, b \in 1..Len(ret[j].rows) :
              /\ DictGet(loc[j].received, ret[j].rows[a][1], 0) = 0
              /\ DictGet(loc[j].balance_lookup, Lower(ret[j].rows[a][1]), 0) > 0
              /\ PercentShown(ret[j].rows[a]) = 0
              /\ PercentShown(ret[j].rows[b]) = 1111

(* ---------------------- claims on determinism -------------------------- *)

\* C15: two jobs that were asked the same and joined the same received
\* totals, the same holder balances and the same activity totals wrote the
\* same rows in the same order.
C15_SameInputsSameRows ==
    \A j, k \in Jobs :
        (/\ req[j].entry = "process" /\ req[k].entry = "process"
         /\ files[j] # <<>> /\ files[k] # <<>>
         /\ req[j] = req[k]
         /\ loc[j].received = loc[k].received
         /\ loc[j].balance_lookup = loc[k].balance_lookup
         /\ loc[j].activity = loc[k].activity)
        => files[j].rows = files[k].rows

(* ----------------------- claims on the display ------------------------- *)

RoundingRules == {"half_even", "half_odd", "half_up", "half_down"}

\* a / 10^d in hundredths by exact decimal arithmetic under a rule, a >= 0:
\* a tie goes to the even or the odd hundredth, or away from or towards zero
RoundBy(rule, a, d) ==
    IF d <= 2 THEN a * Pow10(2 - d)
    ELSE LET q == Pow10(d - 2)
             h == a \div q
             r == a % q
         IN IF 2 * r < q THEN h
            ELSE IF 2 * r > q THEN h + 1
            ELSE CASE rule = "half_even" -> IF h % 2 = 0 THEN h ELSE h + 1
                   [] rule = "half_odd" -> IF h % 2 = 1 THEN h ELSE h + 1
                   [] rule = "half_up" -> h + 1
                   [] rule = "half_down" -> h

ExactText(rule, wei, d) == Text(wei < 0, RoundBy(rule, Abs(wei), d))

\* C16: there is one rounding rule of exact decimal arithmetic by which every
\* received, current, delta and category value of a report is shown, with
\* trailing zeros and a trailing point dropped.
C16_OneRoundingRule ==
    \A j \in Jobs :
        (Running(j) /\ pc[j] = "done") =>
            \E rule \in RoundingRules :
                \A i \in 1..Len(ret[j].rows) :
                    LET row == ret[j].rows[i]
                        d == req[j].decimals
                        rcv == DictGet(loc[j].received, row[1], 0)
                        cur == DictGet(loc[j].balance_lookup, Lower(row[1]), 0)
                        cats == AllCategories(loc[j].activity)
                    IN /\ row[2] = ExactText(rule, rcv, d)
                       /\ row[3] = ExactText(rule, cur, d)
                       /\ row[4] = ExactText(rule, cur - rcv, d)
                       /\ \A k \in 1..Len(cats) :
                            row[5 + k] = ExactText(rule, Total(loc[j].activity, row[1], cats[k]), d)

(* ------------------------ claims on the receipts ----------------------- *)

\* A Transfer log of the token to the address, whatever the case of the
\* emitter's address and of the first topic.
TransferTo(lg, token, addr) ==
    /\ Lower(lg.address) = Lower(token)
    /\ Len(lg.topics) >= 3
    /\ Lower(lg.topics[1]) = <<"ddf252ad", FALSE>>
    /\ Lower(lg.topics[3].lo) = addr

AmountOf(lg) == IF lg.data = <<>> THEN 0 ELSE lg.data[1]

RECURSIVE SumLogs(_, _, _, _)
SumLogs(logs, token, addr, n) ==
    IF n = 0 THEN 0
    ELSE SumLogs(logs, token, addr, n - 1)
         + (IF TransferTo(logs[n], token, addr) THEN AmountOf(logs[n]) ELSE 0)

RECURSIVE SumReceipts(_, _, _, _)
SumReceipts(txhashes, token, addr, n) ==
    IF n = 0 THEN 0
    ELSE SumReceipts(txhashes, token, addr, n - 1)
         + SumLogs(ReceiptOf(txhashes[n]).logs, token, addr, Len(ReceiptOf(txhashes[n]).logs))

ReceiptsDone(j) ==
    /\ Running(j)
    /\ pc[j] \in {"count_req", "fad_count", "holders_req", "fad_holders",
                  "transfers_req", "aca_transfers", "fad_join", "done"}

ReceivedAsLogged(j) ==
    LET txhashes == req[j].txhashes
        token == req[j].token
    IN \A a \in Range(DictKeys(loc[j].received)) \cup {Addr(0), Addr(1), Addr(2), Addr(3)} :
         /\ DictGet(loc[j].received, a, 0) = SumReceipts(txhashes, token, a, Len(txhashes))
         /\ DictHas(loc[j].received, a)
              <=> \E n \in 1..Len(txhashes) :
                    \E i \in 1..Len(ReceiptOf(txhashes[n]).logs) :
                       TransferTo(ReceiptOf(txhashes[n]).logs[i], token, a)

\* C17: when the last receipt is in, the received total of every address is
\* the sum of the amounts of the token's Transfer logs to it over the
\* receipts of all input hashes, an address has a total only if such a log
\* names it, and the totals stay as they are for the rest of the run.
C17_ReceivedTotals ==
    /\ [](\A j \in Jobs : (Running(j) /\ pc[j] = "count_req") => ReceivedAsLogged(j))
    /\ [][\A j \in Jobs : ReceiptsDone(j) => loc'[j].received = loc[j].received]_vars

\* Two receipts are in: the first recipient's total adds a log of each, one
\* of them emitted under a mixed-case address and topic; the log of the
\* other token and the Approval log to the third recipient added nothing.
C17_Witness ==
    \E j \in Jobs :
        /\ ReceiptsDone(j)
        /\ req[j].txhashes = <<"h1", "h2">>
        /\ DictGet(loc[j].received, Addr(1), 0) = 2000
        /\ DictGet(loc[j].received, Addr(2), 0) = 1000
        /\ DictGet(loc[j].received, Addr(3), 0) = 0

\* The token's Transfer logs of a receipt, in the receipt's order.
TransferLogs(receipt, token) ==
    SelectSeq(receipt.logs,
              LAMBDA lg : /\ Lower(lg.address) = Lower(token)
                          /\ Len(lg.topics) >= 3
                          /\ Lower(lg.topics[1]) = <<"ddf252ad", FALSE>>)

Fetched(j) == Running(j) /\ pc[j] = "fad_receipt" /\ ret[j].kind = "dict"

\* C18: parsing a fetched receipt does not fail on amount data that is not
\* hex or is missing; it returns one event per Transfer log of the token, in
\* order, with amount 0 for such a log and its own amount for every other.
C18_MalformedAmountIsZero ==
    \A j \in Jobs :
        Fetched(j) =>
            LET logs == TransferLogs(ret[j], req[j].token)
                events == parse_transfers_from_receipt(ret[j], req[j].token)
            IN /\ ~ParseRaises(ret[j], req[j].token)
               /\ Len(events) = Len(logs)
               /\ \A k \in 1..Len(logs) :
                    /\ events[k][1] = Lower(logs[k].topics[3].lo)
                    /\ events[k][2] = (IF logs[k].data = <<>> THEN 0 ELSE logs[k].data[1])

\* A fetched receipt with a Transfer log of 500 followed by a Transfer log
\* whose amount data is not hex.
C18_Witness ==
    \E j \in Jobs :
        /\ Fetched(j)
        /\ parse_transfers_from_receipt(ret[j], req[j].token) = <<<<Addr(1), 500>>, <<Addr(3), 0>>>>
        /\ TransferLogs(ret[j], req[j].token)[2].data = <<>>

(* ------------------------- claims on the phases ------------------------ *)

Asked(j, api) == sent'[j][api] > sent[j][api]

\* What holds of every step of a run: the order of the requests, of the
\* contracts and of the file.
C19_Step ==
    \A j \in Jobs :
        Running(j) =>
            /\ Asked(j, "receipt") =>
                  /\ sent[j]["tokenholderlist"] = 0 /\ sent[j]["tokentx"] = 0
                  /\ files[j] = <<>>
            /\ Asked(j, "tokenholderlist") => sent[j]["tokentx"] = 0 /\ files[j] = <<>>
            /\ Asked(j, "tokentx") =>
                  /\ files[j] = <<>>
                  /\ Lower(fetch[j].addr) = Lower(loc[j].contracts[loc[j].ci][1])
            /\ loc'[j].ci # loc[j].ci =>
                  /\ pc[j] \in {"fad_holders", "aca_transfers"}
                  /\ loc'[j].ci > loc[j].ci \/ loc'[j].ci = 0
            /\ files'[j] # files[j] => pc'[j] = "done"

\* The pauses taken between receipt fetches so far
C19_Pauses ==
    \A j \in Jobs :
        Running(j) =>
            /\ pc[j] \in {"receipt_req", "fad_receipt"} => loc[j].pauses = loc[j].idx - 1
            /\ ReceiptsDone(j) => loc[j].pauses = Len(req[j].txhashes) - 1

\* C19: every receipt request precedes every holder-list request, which
\* precedes every transfer-history request; the contracts are taken in
\* order, each after the fetch of the one before has returned; the file is
\* written after all requests; there is one pause between two receipt
\* fetches and none after the last.
C19_PhasesInOrder == []C19_Pauses /\ [][C19_Step]_vars

\* A run over two hashes that asked both contracts for their histories and
\* wrote its file, having paused once.
C19_Witness ==
    \E j \in Jobs :
        /\ Running(j) /\ pc[j] = "done" /\ files[j] # <<>>
        /\ Len(req[j].txhashes) = 2
        /\ loc[j].pauses = 1
        /\ sent[j]["receipt"] >= 2 /\ sent[j]["tokenholderlist"] >= 2
        /\ sent[j]["tokentx"] >= 4

(* ---------------------- claims on skipped contracts -------------------- *)

Processing(j) == req[j].entry = "process"

\* A configured contract with a category label and at least one pattern
Usable(config) == config.category # "" /\ config.functions # <<>>

UsableAt(contracts) == {k \in 1..Len(contracts) : Usable(contracts[k][2])}

\* The totals after the first n configured contracts when only the usable
\* ones are asked for their history and aggregated.
RECURSIVE UsableTotals(_, _, _)
UsableTotals(addresses, contracts, n) ==
    IF n = 0 THEN [i \in 1..Len(addresses) |-> <<Lower(addresses[i]), <<>> >>]
    ELSE LET before == UsableTotals(addresses, contracts, n - 1)
             history == TransfersOf(contracts[n][1])
         IN IF Usable(contracts[n][2])
            THEN Aggregate(before, history, contracts[n][2], Len(history))
            ELSE before

\* Every transfer-history request goes to a usable contract.
C20_Step ==
    \A j \in Jobs :
        (Processing(j) /\ Asked(j, "tokentx")) =>
            \E k \in UsableAt(loc[j].contracts) :
                Lower(loc[j].contracts[k][1]) = Lower(fetch[j].addr)

\* After the analysis the totals are those of the usable contracts, each of
\* which was asked at least once.
C20_Analyzed ==
    \A j \in Jobs :
        (Processing(j) /\ pc[j] = "fad_join") =>
            /\ loc[j].activity
                 = UsableTotals(loc[j].addresses, loc[j].contracts, Len(loc[j].contracts))
            /\ sent[j]["tokentx"] >= Cardinality(UsableAt(loc[j].contracts))
            /\ UsableAt(loc[j].contracts) = {} => sent[j]["tokentx"] = 0

\* C20: a configured contract with an empty category label or an empty
\* pattern set gets no transfer-history request and adds nothing to the
\* totals, and the other configured contracts are processed.
C20_SkippedContracts == []C20_Analyzed /\ [][C20_Step]_vars

\* An analysis over a configuration with a skipped contract before and after
\* a usable one, whose usable contract added to the totals.
C20_Witness ==
    \E j \in Jobs :
        /\ Processing(j) /\ pc[j] = "fad_join"
        /\ loc[j].contracts = CfgOther
        /\ sent[j]["tokentx"] >= 1
        /\ LabelsOf(loc[j].activity) = {"rewards"}

(* ------------------------ claims on the address maps ------------------- *)

\* The holder list came back and the lookup was built from it.
LookupBuilt(j) ==
    /\ Running(j) /\ pc[j] = "transfers_req"
    /\ fetch[j].page = 1 /\ trace[j] = <<>> /\ loc[j].ci = 1

\* The places of the fetched list that hold a spelling of the address
Occurrences(all_holders, addr) ==
    {i \in 1..Len(all_holders) : Lower(all_holders[i].TokenHolderAddress) = Lower(addr)}

MaxOf(S) == CHOOSE m \in S : \A i \in S : i <= m

\* C21: for every address of the fetched holder list, in whatever spelling
\* and however often, the balance lookup has exactly one entry under the
\* lowercase form, and it holds the balance of the last occurrence in fetch
\* order; the lookup has no other entries.
C21_LastSeenBalance ==
    \A j \in Jobs :
        LookupBuilt(j) =>
            LET all_holders == ret[j]
                lookup == loc[j].balance_lookup
            IN /\ \A n \in 1..Len(all_holders) :
                    LET key == Lower(all_holders[n].TokenHolderAddress)
                        last == MaxOf(Occurrences(all_holders, key))
                    IN /\ Cardinality({k \in 1..Len(lookup) : lookup[k][1] = key}) = 1
                       /\ \A k \in 1..Len(lookup) :
                            lookup[k][1] = key =>
                                lookup[k][2] = all_holders[last].TokenHolderQuantity
               /\ \A k \in 1..Len(lookup) : Occurrences(all_holders, lookup[k][1]) # {}

\* A list of three records on two pages whose first and last spell one
\* address differently and differ in balance.
C21_Witness ==
    \E j \in Jobs :
        /\ LookupBuilt(j)
        /\ Len(ret[j]) = 3
        /\ ret[j][1].TokenHolderAddress = Addr(1) /\ ret[j][1].TokenHolderQuantity = 5
        /\ ret[j][2].TokenHolderAddress = Addr(2)
        /\ ret[j][3].TokenHolderAddress = Mixed(1) /\ ret[j][3].TokenHolderQuantity = 7
        /\ DictGet(loc[j].balance_lookup, Addr(1), 0) = 7
        /\ Len(loc[j].balance_lookup) = 2

\* A map keyed by addresses has only lowercase keys, each once.
NormalizedKeys(d) ==
    /\ \A k \in 1..Len(d) : d[k][1] = Lower(d[k][1])
    /\ IsSet(DictKeys(d))

\* C22: at every point of a run the keys of the received totals, of the
\* balance lookup and of the activity totals are lowercase addresses and no
\* address has two keys, whatever the spelling of the addresses in the
\* receipts, holder records and transfer records.
C22_NormalizedKeys ==
    \A j \in Jobs :
        Running(j) =>
            /\ NormalizedKeys(loc[j].received)
            /\ NormalizedKeys(loc[j].balance_lookup)
            /\ NormalizedKeys(loc[j].activity)

\* A run whose receipts, holder list and transfer history spell one address
\* in two ways has merged them under its lowercase form.
C22_Witness ==
    \E j \in Jobs :
        /\ Running(j) /\ pc[j] = "fad_join"
        /\ req[j].txhashes = <<"h1", "h2">>
        /\ DictGet(loc[j].received, Addr(1), 0) = 2000
        /\ DictGet(loc[j].balance_lookup, Addr(1), 0) = 1001
        /\ Total(loc[j].activity, Addr(1), "staking") = 300
        /\ \E i \in 1..Len(ReceiptOf("h2").logs) :
              ReceiptOf("h2").logs[i].topics[3].lo = Mixed(1)
        /\ \E i \in 1..Len(RunHolders) : RunHolders[i].TokenHolderAddress = Mixed(1)
        /\ \E i \in 1..Len(StakeTransfers) : StakeTransfers[i].from = Mixed(1)

(* --------------------- claims on the jobs' shared state ---------------- *)

\* No process() is between its start and its end.
NoJobRuns == \A j \in Jobs : pc[j] \in {"off", "finished"}

\* C23: whenever no job is running, the three module globals of logic.py
\* hold the values they had before the first job started.
C23_GlobalsRestored ==
    NoJobRuns =>
        /\ TOKEN_CONTRACT = TokenA
        /\ DECIMALS = 18
        /\ DEFAULT_CONTRACTS_AND_FUNCTIONS = CfgDefault

\* The lines a log file object has taken, flushed or not
Written(j) == log_files[j].pending \cup log_files[j].disk

\* While a run can print, sys.stdout is the terminal or an open log file
\* (each job is started once).
StdoutIsOpen ==
    (\E j \in Jobs : pc[j] \in {"call", "receipt_req", "fad_receipt", "count_req",
                                 "fad_count", "holders_req", "fad_holders",
                                 "transfers_req", "aca_transfers", "fad_join"})
        => stdout = "terminal" \/ log_files[stdout].state = "open"

\* C24: the lines a run prints are written to its own job's log file only,
\* the result of a job names the job's own output file with the rows the run
\* wrote, and when all jobs have finished sys.stdout is the process stream
\* again.
C24_OwnLogOwnFile ==
    /\ \A j \in Jobs : \A line \in Written(j) : line.by = j
    /\ \A j \in Jobs :
          results[j] # <<>> =>
              results[j].csv_file = j /\ results[j].count = Len(files[j].rows)
    /\ (\A j \in Jobs : pc[j] = "finished") => stdout = "terminal"

\* finally has written the marker to the job's log.
MarkerWritten(j) == pc[j] = "finished"

\* C25 (its second and third part): /poll answers done=true for a job only
\* when the marker is written, and then /result finds the result of a job
\* whose run succeeded.
C25_DoneAfterMarker ==
    \A j \in Jobs :
        poll(j).done =>
            /\ MarkerWritten(j)
            /\ loc[j].exc = "-" => result(j) # "Processing not complete"
====
